---- MODULE Spec2Model ----
(***************************************************************************)
(* A model of excel_mapper/core.py: the column-name sanitizer              *)
(* (ExcelMapper._sanitize_column_names), the table operations of           *)
(* ExcelMapper (load, save_excel, update_row, update_column, add_row) and  *)
(* the Row objects they build.                                             *)
(*                                                                         *)
(* A Python str is modelled as the sequence of its code points, so that    *)
(* lower(), the two re.sub calls, strip('_') and chr(65 + i) are computed  *)
(* character by character.                                                 *)
(***************************************************************************)
EXTENDS Integers, Sequences, FiniteSets, TLC

VARIABLES
    \* ---- one call of _sanitize_column_names, run statement by statement
    column_names,     \* the argument: a list of header values
    i,                \* the enumerate() index of the loop
    sanitized_names,  \* the list being built
    name_count,       \* the dict of base names seen so far
    pc,               \* "loop" while the for loop runs, "done" at return
    \* ---- an ExcelMapper object and the files around it
    fs,               \* the filesystem: path -> workbook, or NoFile
    file_path,        \* self.file_path
    column_mapping,   \* self.column_mapping: dict, sanitized -> original
    rows,             \* self.rows: list of Row
    last,             \* the last call made on the object and how it ended
    modified,         \* whether a call changed self.rows since the load
    saved,            \* the last save of an unmodified table to a new path
    nops              \* calls made so far

sanVars == <<column_names, i, sanitized_names, name_count, pc>>
tableVars == <<fs, file_path, column_mapping, rows, last, modified, saved, nops>>

vars == <<sanVars, tableVars>>

----------------------------------------------------------------------------
(* Bounds of the model. *)

\* Headers chosen freely at the start of a header list.
MaxPre == 2
\* Numbered filler columns (headers 1, 2, ...) between the free headers.
MaxFill == 30
\* Calls made on one ExcelMapper object.
MaxOps == 2
\* Rows a table grows to by add_row.
MaxRows == 2
\* Keyword arguments of one update_row or add_row call.
MaxKw == 1

----------------------------------------------------------------------------
(* Strings. *)

LowerLetters ==
    <<"a", "b", "c", "d", "e", "f", "g", "h", "i", "j", "k", "l", "m",
      "n", "o", "p", "q", "r", "s", "t", "u", "v", "w", "x", "y", "z">>
UpperLetters ==
    <<"A", "B", "C", "D", "E", "F", "G", "H", "I", "J", "K", "L", "M",
      "N", "O", "P", "Q", "R", "S", "T", "U", "V", "W", "X", "Y", "Z">>
DigitChars == <<"0", "1", "2", "3", "4", "5", "6", "7", "8", "9">>

IndexIn(seq, c) == CHOOSE k \in 1..Len(seq) : seq[k] = c

\* ord() of the ASCII characters the model writes.
Ord ==
    [c \in {LowerLetters[k] : k \in 1..26} \cup {UpperLetters[k] : k \in 1..26}
           \cup {DigitChars[k] : k \in 1..10} \cup {" ", "!", "_"} |->
        IF \E k \in 1..26 : LowerLetters[k] = c THEN 96 + IndexIn(LowerLetters, c)
        ELSE IF \E k \in 1..26 : UpperLetters[k] = c THEN 64 + IndexIn(UpperLetters, c)
        ELSE IF \E k \in 1..10 : DigitChars[k] = c THEN 47 + IndexIn(DigitChars, c)
        ELSE IF c = " " THEN 32
        ELSE IF c = "!" THEN 33
        ELSE 95]

\* The str whose characters are cs, e.g. S(<<"Q", "t", "y">>) is "Qty".
S(cs) == [k \in 1..Len(cs) |-> Ord[cs[k]]]

IsUpper(c) == c >= Ord["A"] /\ c <= Ord["A"] + 25
IsLowerOrDigit(c) ==
    \/ c >= Ord["a"] /\ c <= Ord["a"] + 25
    \/ c >= Ord["0"] /\ c <= Ord["9"]

\* str.lower() on ASCII text.
lower(s) == [k \in 1..Len(s) |-> IF IsUpper(s[k]) THEN s[k] + 32 ELSE s[k]]

\* The decimal digits of a natural number, as str(n) writes them.
RECURSIVE Digits(_)
Digits(n) ==
    IF n < 10 THEN <<Ord["0"] + n>>
    ELSE Append(Digits(n \div 10), Ord["0"] + (n % 10))

\* str(col_name): a header is <<"str", s>> or <<"int", n>>.
str(col_name) ==
    IF col_name[1] = "int" THEN Digits(col_name[2]) ELSE col_name[2]

\* re.sub(r'[^a-z0-9]+', '_', s): every maximal run of characters outside
\* [a-z0-9] becomes one underscore.
RECURSIVE SubInvalidRuns(_)
SubInvalidRuns(s) ==
    IF s = <<>> THEN <<>>
    ELSE IF IsLowerOrDigit(Head(s)) THEN <<Head(s)>> \o SubInvalidRuns(Tail(s))
    ELSE IF Len(s) > 1 /\ ~IsLowerOrDigit(s[2]) THEN SubInvalidRuns(Tail(s))
    ELSE <<Ord["_"]>> \o SubInvalidRuns(Tail(s))

\* re.sub(r'_+', '_', s): every maximal run of underscores becomes one.
RECURSIVE SubUnderscoreRuns(_)
SubUnderscoreRuns(s) ==
    IF s = <<>> THEN <<>>
    ELSE IF Head(s) = Ord["_"] /\ Len(s) > 1 /\ s[2] = Ord["_"]
         THEN SubUnderscoreRuns(Tail(s))
    ELSE <<Head(s)>> \o SubUnderscoreRuns(Tail(s))

RECURSIVE lstrip_(_)
lstrip_(s) ==
    IF s # <<>> /\ Head(s) = Ord["_"] THEN lstrip_(Tail(s)) ELSE s

RECURSIVE rstrip_(_)
rstrip_(s) ==
    IF s # <<>> /\ s[Len(s)] = Ord["_"] THEN rstrip_(SubSeq(s, 1, Len(s) - 1))
    ELSE s

\* A strip that forgets the trailing underscores.
strip_LeadingOnly(s) == lstrip_(s)

\* s.strip('_')
strip_(s) == rstrip_(lstrip_(s))

\* chr(n), a one-character str.
chr(n) == <<n>>

----------------------------------------------------------------------------
(* ExcelMapper._sanitize_column_names *)

\* Lines 90-96: the name of one header before duplicates are handled.
BaseName(col_name) ==
    strip_(SubUnderscoreRuns(SubInvalidRuns(lower(str(col_name)))))

\* Line 102: col_letter = chr(65 + i), i the 0-based enumerate() index.
col_letter(idx) == chr(65 + idx)

\* The loop body with the letter taken from the occurrence count of the
\* base name instead of the position of the header.
SanitizeStep_ByCount(st, idx, col_name) ==
    LET sanitized == BaseName(col_name) IN
    IF sanitized \in DOMAIN st.count
    THEN [names |-> Append(st.names,
                           sanitized \o <<Ord["_"]>> \o chr(65 + st.count[sanitized])),
          count |-> [st.count EXCEPT ![sanitized] = @ + 1]]
    ELSE [names |-> Append(st.names, sanitized),
          count |-> [b \in DOMAIN st.count \cup {sanitized} |->
                        IF b = sanitized THEN 1 ELSE st.count[b]]]

\* Lines 99-107: one pass of the loop body on the header at 0-based index
\* idx, from the state st = [names, count] of the two locals.
SanitizeStep(st, idx, col_name) ==
    LET sanitized == BaseName(col_name) IN
    IF sanitized \in DOMAIN st.count
    THEN [names |-> Append(st.names, sanitized \o <<Ord["_"]>> \o col_letter(idx)),
          count |-> [st.count EXCEPT ![sanitized] = @ + 1]]
    ELSE [names |-> Append(st.names, sanitized),
          count |-> [b \in DOMAIN st.count \cup {sanitized} |->
                        IF b = sanitized THEN 1 ELSE st.count[b]]]

\* Lines 85-86.
SanitizeStart == [names |-> <<>>, count |-> <<>>]

RECURSIVE SanitizeFrom(_, _, _)
SanitizeFrom(st, idx, cols) ==
    IF idx >= Len(cols) THEN st
    ELSE SanitizeFrom(SanitizeStep(st, idx, cols[idx + 1]), idx + 1, cols)

\* The whole call: the list it returns.
_sanitize_column_names(cols) == SanitizeFrom(SanitizeStart, 0, cols).names

----------------------------------------------------------------------------
(* Header lists given to the sanitizer. *)

Headers ==
    { <<"str", S(<<"Q", "t", "y">>)>>,
      <<"str", S(<<"q">>)>>,
      <<"str", S(<<"_", "Q", "_", "_", "a", "!">>)>>,
      <<"str", S(<<"!", "!">>)>>,
      <<"str", S(<<"2">>)>> }

ListsUpTo(n) == UNION {[1..k -> Headers] : k \in 0..n}

\* The numbered columns 1..k.
Fillers(k) == [j \in 1..k |-> <<"int", j>>]

\* Free headers, then the numbered columns, then at most one more free header.
HeaderLists ==
    { pre \o Fillers(k) \o post :
        pre \in ListsUpTo(MaxPre), k \in 0..MaxFill,
        post \in {<<>>} \cup {<<h>> : h \in Headers} }

----------------------------------------------------------------------------
(* Python values. *)

\* A cell value is one of these strings: None, the NaN that pandas gives an
\* empty cell, a value found in a workbook, a value passed by a caller.
None == "None"
NaN == "NaN"
FileValues == {"v0", NaN}
NewValues == {"v1"}

\* pd.isna(value)
isna(value) == value = NaN

\* A dict is the sequence of its <<key, value>> items in insertion order.
DictKeys(d) == [k \in 1..Len(d) |-> d[k][1]]
DictValues(d) == [k \in 1..Len(d) |-> d[k][2]]
DictHas(d, key) == \E k \in 1..Len(d) : d[k][1] = key
DictGet(d, key) == d[CHOOSE k \in 1..Len(d) : d[k][1] = key][2]
\* d[key] = value: an existing key keeps its place.
DictSet(d, key, value) ==
    IF DictHas(d, key)
    THEN [k \in 1..Len(d) |-> IF d[k][1] = key THEN <<key, value>> ELSE d[k]]
    ELSE Append(d, <<key, value>>)

\* dict(zip(ks, vs))
RECURSIVE DictZip(_, _)
DictZip(ks, vs) ==
    IF ks = <<>> \/ vs = <<>> THEN <<>>
    ELSE LET n == IF Len(ks) < Len(vs) THEN Len(ks) ELSE Len(vs) IN
         DictSet(DictZip(SubSeq(ks, 1, n - 1), SubSeq(vs, 1, n - 1)), ks[n], vs[n])

\* The str key equal to an attribute name.
StrKey(name) == <<"str", name>>

----------------------------------------------------------------------------
(* Row *)

NAME_to_dict == S(<<"t", "o", "_", "d", "i", "c", "t">>)
NAME_data == S(<<"_", "d", "a", "t", "a">>)
NAME_zz == S(<<"z", "z">>)

\* The names the class Row defines (lines 314-366).
ClassAttrs ==
    { NAME_to_dict,
      S(<<"g", "e", "t", "_", "o", "r", "i", "g", "i", "n", "a", "l", "_",
          "c", "o", "l", "u", "m", "n", "_", "n", "a", "m", "e">>),
      S(<<"_", "_", "i", "n", "i", "t", "_", "_">>),
      S(<<"_", "_", "g", "e", "t", "a", "t", "t", "r", "_", "_">>),
      S(<<"_", "_", "r", "e", "p", "r", "_", "_">>) }

\* The instance attributes __init__ sets besides _data (lines 324-326).
PrivateAttrs ==
    { S(<<"_", "s", "a", "n", "i", "t", "i", "z", "e", "d", "_",
          "c", "o", "l", "u", "m", "n", "s">>),
      S(<<"_", "c", "o", "l", "u", "m", "n", "_", "m", "a", "p", "p", "i", "n", "g">>),
      S(<<"_", "o", "r", "i", "g", "i", "n", "a", "l", "_",
          "c", "o", "l", "u", "m", "n", "s">>) }

\* setattr(row, name, value). A Row is [_data, attrs]: _data is
\* <<"dict", d>> while the attribute holds the dict given to __init__ and
\* <<"value", v>> once a caller has assigned v to it; attrs is the rest of
\* the instance __dict__ that was assigned a cell value, name -> value.
setattr(row, name, value) ==
    IF name = NAME_data THEN [row EXCEPT !._data = <<"value", value>>]
    ELSE [row EXCEPT !.attrs =
            [a \in DOMAIN row.attrs \cup {name} |->
                IF a = name THEN value ELSE row.attrs[a]]]

\* hasattr(row, name): the instance __dict__, then the class; __getattr__
\* (lines 335-337) raises AttributeError for every other name.
hasattr(row, name) ==
    \/ name \in DOMAIN row.attrs
    \/ name = NAME_data
    \/ name \in PrivateAttrs
    \/ name \in ClassAttrs

\* getattr(row, attr_name, None) for a name that is no private attribute.
getattr_or_None(row, name) ==
    IF name \in DOMAIN row.attrs THEN row.attrs[name]
    ELSE IF name \in ClassAttrs THEN "<bound method>"
    ELSE None

\* Lines 329-333: one setattr per pair of zip(_original_columns,
\* sanitized_columns), in order.
RECURSIVE InitAttrs(_, _, _, _)
InitAttrs(row, data, sanitized_columns, k) ==
    IF k > Len(data) \/ k > Len(sanitized_columns) THEN row
    ELSE LET value == data[k][2] IN
         InitAttrs(setattr(row, sanitized_columns[k],
                           IF isna(value) THEN None ELSE value),
                   data, sanitized_columns, k + 1)

\* Row.__init__(data, sanitized_columns, column_mapping)
Row(data, sanitized_columns) ==
    InitAttrs([_data |-> <<"dict", data>>, attrs |-> <<>>],
              data, sanitized_columns, 1)

\* Line 344: the names of dir(self) that do not start with '_' and whose
\* value is not callable: the assigned names, since the class's own public
\* names are methods unless an assignment shadows them.
PublicValueAttrs(row) ==
    {a \in DOMAIN row.attrs : a = <<>> \/ a[1] # Ord["_"]}

\* The names of a set of strs in sorted order, as dir() lists them.
RECURSIVE StrLess(_, _)
StrLess(a, b) ==
    IF b = <<>> THEN FALSE
    ELSE IF a = <<>> THEN TRUE
    ELSE IF a[1] # b[1] THEN a[1] < b[1]
    ELSE StrLess(Tail(a), Tail(b))

RECURSIVE Sorted(_)
Sorted(names) ==
    IF names = {} THEN <<>>
    ELSE LET m == CHOOSE x \in names : \A y \in names \ {x} : StrLess(x, y) IN
         <<m>> \o Sorted(names \ {m})

\* Lines 347-349.
RECURSIVE AddAttrs(_, _, _, _)
AddAttrs(result, row, original_attrs, all_attrs) ==
    IF all_attrs = <<>> THEN result
    ELSE LET attr == Head(all_attrs) IN
         AddAttrs(IF DictHas(original_attrs, StrKey(attr)) THEN result
                  ELSE DictSet(result, StrKey(attr), row.attrs[attr]),
                  row, original_attrs, Tail(all_attrs))

\* row.to_dict(): [result, value]. The call raises TypeError when to_dict
\* has been assigned a cell value and AttributeError when _data has.
to_dict(row) ==
    IF NAME_to_dict \in DOMAIN row.attrs
    THEN [result |-> "TypeError", value |-> <<>>]
    ELSE IF row._data[1] # "dict"
    THEN [result |-> "AttributeError", value |-> <<>>]
    ELSE [result |-> "ok",
          value |-> AddAttrs(row._data[2], row, row._data[2],
                             Sorted(PublicValueAttrs(row)))]

----------------------------------------------------------------------------
(* Workbooks: what pd.read_excel reads and DataFrame.to_excel writes. *)

NoFile == [exists |-> FALSE]

\* A workbook: the column labels, and per data row the cells in column
\* order, an empty cell reading NaN.
Workbook(columns, records) ==
    [exists |-> TRUE, columns |-> columns, records |-> records]

\* df.to_dict('records'): one dict per data row, keyed by column label.
to_dict_records(file) ==
    [r \in 1..Len(file.records) |->
        [c \in 1..Len(file.columns) |-> <<file.columns[c], file.records[r][c]>>]]

\* A cell as to_excel writes it and read_excel reads it back: None and NaN
\* are both written as an empty cell.
WrittenCell(value) == IF value = None \/ value = NaN THEN NaN ELSE value

\* pd.DataFrame(data) then to_excel: the columns are the keys of the
\* records (every record is built by the same loop and has the same keys);
\* an empty list of records makes a frame with no column at all.
DataFrameToExcel(data) ==
    IF data = <<>> THEN Workbook(<<>>, <<>>)
    ELSE Workbook(DictKeys(data[1]),
                  [r \in 1..Len(data) |->
                      [c \in 1..Len(data[1]) |->
                          IF DictHas(data[r], data[1][c][1])
                          THEN WrittenCell(DictGet(data[r], data[1][c][1]))
                          ELSE NaN]])

----------------------------------------------------------------------------
(* ExcelMapper *)

Paths == {"book.xlsx", "out.xlsx"}

\* __init__ and _read_excel (lines 43-69) on an existing workbook:
\* [column_mapping, rows].
_read_excel(file) ==
    LET original_columns == file.columns
        sanitized_columns == _sanitize_column_names(original_columns)
        data == to_dict_records(file)
    IN [column_mapping |-> DictZip(sanitized_columns, original_columns),
        rows |-> [r \in 1..Len(data) |-> Row(data[r], sanitized_columns)]]

\* Lines 246-249 from the k-th keyword argument on: [result, row].
RECURSIVE UpdateAttrs(_, _, _)
UpdateAttrs(row, kwargs, k) ==
    IF k > Len(kwargs) THEN [result |-> "ok", row |-> row]
    ELSE IF ~hasattr(row, kwargs[k][1])
    THEN [result |-> "AttributeError", row |-> row]
    ELSE UpdateAttrs(setattr(row, kwargs[k][1], kwargs[k][2]), kwargs, k + 1)

\* update_row without the row_index < 0 test: a negative index then counts
\* from the end of the list, as self.rows[row_index] does.
update_row_NegativeIndex(rs, row_index, kwargs) ==
    IF row_index >= Len(rs) \/ row_index < -Len(rs)
    THEN [result |-> "IndexError", rows |-> rs]
    ELSE LET pos == IF row_index < 0 THEN Len(rs) + row_index + 1 ELSE row_index + 1
             u == UpdateAttrs(rs[pos], kwargs, 1)
         IN [result |-> u.result, rows |-> [rs EXCEPT ![pos] = u.row]]

\* update_row(row_index, **kwargs): [result, rows]. row_index is 0-based.
update_row(rs, row_index, kwargs) ==
    IF row_index < 0 \/ row_index >= Len(rs)
    THEN [result |-> "IndexError", rows |-> rs]
    ELSE LET u == UpdateAttrs(rs[row_index + 1], kwargs, 1) IN
         [result |-> u.result, rows |-> [rs EXCEPT ![row_index + 1] = u.row]]

\* update_column(column_attr, new_values): [result, rows]. self.rows[0]
\* on an empty list raises IndexError.
update_column(rs, column_attr, new_values) ==
    IF rs = <<>> THEN [result |-> "IndexError", rows |-> rs]
    ELSE IF ~hasattr(rs[1], column_attr)
    THEN [result |-> "AttributeError", rows |-> rs]
    ELSE IF Len(new_values) # Len(rs)
    THEN [result |-> "ValueError", rows |-> rs]
    ELSE [result |-> "ok",
          rows |-> [r \in 1..Len(rs) |-> setattr(rs[r], column_attr, new_values[r])]]

\* Lines 291-294 from the k-th keyword argument on: [result, data].
RECURSIVE FillData(_, _, _)
FillData(empty_data, kwargs, k) ==
    IF k > Len(kwargs) THEN [result |-> "ok", data |-> empty_data]
    ELSE IF ~DictHas(empty_data, StrKey(kwargs[k][1]))
    THEN [result |-> "AttributeError", data |-> empty_data]
    ELSE FillData(DictSet(empty_data, StrKey(kwargs[k][1]), kwargs[k][2]),
                  kwargs, k + 1)

\* {orig_col: None for orig_col in self.column_mapping.values()}
RECURSIVE NoneDict(_)
NoneDict(keys) ==
    IF keys = <<>> THEN <<>>
    ELSE DictSet(NoneDict(SubSeq(keys, 1, Len(keys) - 1)), keys[Len(keys)], None)

\* add_row(**kwargs): [result, rows].
add_row(mapping, rs, kwargs) ==
    LET f == FillData(NoneDict(DictValues(mapping)), kwargs, 1) IN
    IF f.result # "ok" THEN [result |-> f.result, rows |-> rs]
    ELSE [result |-> "ok", rows |-> Append(rs, Row(f.data, DictKeys(mapping)))]

\* Lines 212-215: the record of one row.
RECURSIVE RowDict(_, _, _)
RowDict(row, mapping, k) ==
    IF k = 0 THEN <<>>
    ELSE DictSet(RowDict(row, mapping, k - 1),
                 mapping[k][2], getattr_or_None(row, mapping[k][1]))

\* save_excel without the os.path.exists test.
save_excel_NoExistsCheck(files, self_path, mapping, rs, path, overwrite) ==
    IF path = "None" /\ ~overwrite THEN [result |-> "ValueError", fs |-> files]
    ELSE LET target == IF path = "None" THEN self_path ELSE path
             data == [r \in 1..Len(rs) |-> RowDict(rs[r], mapping, Len(mapping))]
         IN [result |-> "ok",
             fs |-> [files EXCEPT ![target] = DataFrameToExcel(data)]]

\* save_excel(file_path, overwrite): [result, fs]. path is "None" when the
\* argument is left out.
save_excel(files, self_path, mapping, rs, path, overwrite) ==
    IF path = "None" /\ ~overwrite THEN [result |-> "ValueError", fs |-> files]
    ELSE LET target == IF path = "None" THEN self_path ELSE path IN
         IF ~overwrite /\ files[target].exists
         THEN [result |-> "FileExistsError", fs |-> files]
         ELSE LET data == [r \in 1..Len(rs) |-> RowDict(rs[r], mapping, Len(mapping))]
              IN [result |-> "ok",
                  fs |-> [files EXCEPT ![target] = DataFrameToExcel(data)]]

----------------------------------------------------------------------------
(* The workbooks a run starts from, and the arguments callers pass. *)

HDR_Qty == <<"str", S(<<"Q", "t", "y">>)>>
HDR_qty == <<"str", S(<<"q", "t", "y">>)>>

\* pandas never gives two equal column labels (it renames a repeated label
\* "x" to "x.1"), so the labels of a workbook are distinct.
StartColumns == { <<>>, <<HDR_qty>>, <<HDR_Qty, HDR_qty>> }

\* Every start workbook has no data row or one (a sheet without columns
\* has no data row).
StartBooks ==
    UNION { { Workbook(cols, recs) :
                recs \in {<<>>} \cup
                    {<<cells>> : cells \in IF cols = <<>> THEN {}
                                           ELSE [1..Len(cols) -> FileValues]} } :
            cols \in StartColumns }

\* The attribute names a caller passes: the identifiers of the table, its
\* str headers, a method of Row, a private attribute of Row, and a name
\* that is nothing.
ArgNames ==
    {column_mapping[k][1] : k \in 1..Len(column_mapping)}
        \cup {column_mapping[k][2][2] : k \in
                {j \in 1..Len(column_mapping) : column_mapping[j][2][1] = "str"}}
        \cup {NAME_to_dict, NAME_data, NAME_zz}

\* **kwargs: up to MaxKw distinct names, each with a value.
ArgKwargs ==
    UNION { {kw \in [1..n -> ArgNames \X NewValues] :
                \A a, b \in 1..n : a # b => kw[a][1] # kw[b][1]} : n \in 0..MaxKw }

Identifiers == {column_mapping[k][1] : k \in 1..Len(column_mapping)}

----------------------------------------------------------------------------
(* The ExcelMapper object as a state machine. *)

NoSave == [path |-> "None"]

\* The original headers and, per row, the identifier-keyed values in column
\* order: what the table holds.
TableCells(mapping, rs) ==
    [r \in 1..Len(rs) |->
        [c \in 1..Len(mapping) |-> getattr_or_None(rs[r], mapping[c][1])]]

Call(op) ==
    [op |-> op, result |-> "ok", index |-> 0, kwargs |-> <<>>, name |-> <<>>,
     values |-> <<>>, path |-> "None", overwrite |-> FALSE, out |-> <<>>]

\* ExcelMapper("book.xlsx") on one of the start workbooks.
Init ==
    /\ \E book \in StartBooks :
        /\ fs = [p \in Paths |-> IF p = "book.xlsx" THEN book ELSE NoFile]
        /\ column_mapping = _read_excel(book).column_mapping
        /\ rows = _read_excel(book).rows
    /\ file_path = "book.xlsx"
    /\ last = [Call("load") EXCEPT !.path = "book.xlsx"]
    /\ modified = FALSE
    /\ saved = NoSave
    /\ nops = 0
    /\ column_names = <<>>
    /\ i = 0
    /\ sanitized_names = <<>>
    /\ name_count = <<>>
    /\ pc = "done"

\* ExcelMapper(path): a new object replaces the one at hand; a failed read
\* raises and leaves no new object.
Load(path) ==
    /\ nops < MaxOps
    /\ nops' = nops + 1
    /\ IF fs[path].exists
       THEN /\ column_mapping' = _read_excel(fs[path]).column_mapping
            /\ rows' = _read_excel(fs[path]).rows
            /\ file_path' = path
            /\ modified' = FALSE
            /\ last' = [Call("load") EXCEPT !.path = path]
       ELSE /\ last' = [Call("load") EXCEPT !.path = path, !.result = "Exception"]
            /\ UNCHANGED <<column_mapping, rows, file_path, modified>>
    /\ UNCHANGED <<fs, saved, sanVars>>

UpdateRow(row_index, kwargs) ==
    /\ nops < MaxOps
    /\ nops' = nops + 1
    /\ LET u == update_row(rows, row_index, kwargs) IN
        /\ rows' = u.rows
        /\ last' = [Call("update_row") EXCEPT
                        !.index = row_index, !.kwargs = kwargs, !.result = u.result]
        /\ modified' = (modified \/ u.rows # rows)
    /\ UNCHANGED <<fs, file_path, column_mapping, saved, sanVars>>

UpdateColumn(column_attr, new_values) ==
    /\ nops < MaxOps
    /\ nops' = nops + 1
    /\ LET u == update_column(rows, column_attr, new_values) IN
        /\ rows' = u.rows
        /\ last' = [Call("update_column") EXCEPT
                        !.name = column_attr, !.values = new_values,
                        !.result = u.result]
        /\ modified' = (modified \/ u.rows # rows)
    /\ UNCHANGED <<fs, file_path, column_mapping, saved, sanVars>>

AddRow(kwargs) ==
    /\ nops < MaxOps
    /\ Len(rows) < MaxRows
    /\ nops' = nops + 1
    /\ LET u == add_row(column_mapping, rows, kwargs) IN
        /\ rows' = u.rows
        /\ last' = [Call("add_row") EXCEPT !.kwargs = kwargs, !.result = u.result]
        /\ modified' = (modified \/ u.rows # rows)
    /\ UNCHANGED <<fs, file_path, column_mapping, saved, sanVars>>

SaveExcel(path, overwrite) ==
    /\ nops < MaxOps
    /\ nops' = nops + 1
    /\ LET u == save_excel(fs, file_path, column_mapping, rows, path, overwrite)
           target == IF path = "None" THEN file_path ELSE path
       IN
        /\ fs' = u.fs
        /\ last' = [Call("save_excel") EXCEPT
                        !.path = path, !.overwrite = overwrite, !.result = u.result]
        /\ saved' =
            IF u.result = "ok" /\ ~modified /\ ~fs[target].exists
            THEN [path |-> target,
                  columns |-> DictValues(column_mapping),
                  cells |-> TableCells(column_mapping, rows)]
            ELSE IF u.result = "ok" /\ saved.path = target THEN NoSave
            ELSE saved
    /\ UNCHANGED <<file_path, column_mapping, rows, modified, sanVars>>

\* self.rows[row_index].to_dict(), row_index a valid 0-based index.
ToDict(row_index) ==
    /\ nops < MaxOps
    /\ row_index >= 0 /\ row_index < Len(rows)
    /\ nops' = nops + 1
    /\ LET u == to_dict(rows[row_index + 1]) IN
        last' = [Call("to_dict") EXCEPT
                    !.index = row_index, !.result = u.result, !.out = u.value]
    /\ UNCHANGED <<fs, file_path, column_mapping, rows, modified, saved, sanVars>>

Next ==
    \/ \E path \in Paths : Load(path)
    \/ \E row_index \in -1..MaxRows, kwargs \in ArgKwargs : UpdateRow(row_index, kwargs)
    \/ \E column_attr \in ArgNames,
          new_values \in UNION {[1..n -> NewValues] : n \in 0..(MaxRows + 1)} :
            UpdateColumn(column_attr, new_values)
    \/ \E kwargs \in ArgKwargs : AddRow(kwargs)
    \/ \E path \in Paths \cup {"None"}, overwrite \in BOOLEAN : SaveExcel(path, overwrite)
    \/ \E row_index \in 0..(MaxRows - 1) : ToDict(row_index)

Spec == Init /\ [][Next]_vars

----------------------------------------------------------------------------
(* The sanitizer as a state machine. *)

\* No ExcelMapper object takes part in a bare sanitizer call.
TableIdle ==
    /\ fs = <<>>
    /\ file_path = "None"
    /\ column_mapping = <<>>
    /\ rows = <<>>
    /\ last = [op |-> "none"]
    /\ modified = FALSE
    /\ saved = [path |-> "None"]
    /\ nops = 0

SanInit ==
    /\ column_names \in HeaderLists
    /\ i = 0
    /\ sanitized_names = <<>>
    /\ name_count = <<>>
    /\ pc = "loop"
    /\ TableIdle

\* One iteration of the for loop (lines 88-107).
SanLoop ==
    /\ pc = "loop"
    /\ i < Len(column_names)
    /\ LET st == SanitizeStep([names |-> sanitized_names, count |-> name_count],
                              i, column_names[i + 1]) IN
        /\ sanitized_names' = st.names
        /\ name_count' = st.count
    /\ i' = i + 1
    /\ UNCHANGED <<column_names, pc, tableVars>>

\* Line 109: the loop is exhausted and the list is returned.
SanReturn ==
    /\ pc = "loop"
    /\ i = Len(column_names)
    /\ pc' = "done"
    /\ UNCHANGED <<column_names, i, sanitized_names, name_count, tableVars>>

SanNext == SanLoop \/ SanReturn

SpecSan == SanInit /\ [][SanNext]_vars

----------------------------------------------------------------------------
(* Claims about the sanitizer, checked under SpecSan. *)

\* The maximal runs of [a-z0-9] characters of s, in order; cur is the run
\* being read.
RECURSIVE Tokens(_, _)
Tokens(s, cur) ==
    LET closed == IF cur = <<>> THEN <<>> ELSE <<cur>> IN
    IF s = <<>> THEN closed
    ELSE IF IsLowerOrDigit(Head(s)) THEN Tokens(Tail(s), Append(cur, Head(s)))
    ELSE closed \o Tokens(Tail(s), <<>>)

RECURSIVE JoinUnderscore(_)
JoinUnderscore(ts) ==
    IF ts = <<>> THEN <<>>
    ELSE IF Len(ts) = 1 THEN ts[1]
    ELSE ts[1] \o <<Ord["_"]>> \o JoinUnderscore(Tail(ts))

\* The base name as the specification words it: the [a-z0-9] runs of the
\* lowercased text of the header, joined by single underscores.
ClaimBase(h) == JoinUnderscore(Tokens(lower(str(h)), <<>>))

\* The base names of a list of headers.
RECURSIVE ClaimBases(_)
ClaimBases(cols) ==
    IF cols = <<>> THEN <<>>
    ELSE Append(ClaimBases(SubSeq(cols, 1, Len(cols) - 1)), ClaimBase(cols[Len(cols)]))

\* In the list b of base names, position k (1-based) repeats an earlier one.
IsDuplicateAt(b, k) == \E j \in 1..(k - 1) : b[j] = b[k]

\* Only [a-z0-9_], no two consecutive underscores, no leading or trailing
\* underscore.
WellFormed(n) ==
    /\ \A k \in 1..Len(n) : IsLowerOrDigit(n[k]) \/ n[k] = Ord["_"]
    /\ \A k \in 1..(Len(n) - 1) : ~(n[k] = Ord["_"] /\ n[k + 1] = Ord["_"])
    /\ n # <<>> => (n[1] # Ord["_"] /\ n[Len(n)] # Ord["_"])

\* C1 (as claimed): sanitize returns a list of the same length in which
\* every identifier, those of duplicate headers included, consists only
\* of [a-z0-9_] with no double, leading or trailing underscore.
C1_AllWellFormed ==
    pc = "done" =>
        /\ Len(sanitized_names) = Len(column_names)
        /\ \A k \in 1..Len(sanitized_names) : WellFormed(sanitized_names[k])

\* C1 (amended): the list has the length of the input; the identifier of a
\* header whose base name no earlier header produced is well formed, and the
\* identifier of a duplicate header is a well-formed name followed by '_'
\* and the character chr(65 + i) of its 0-based position i.
C1_WellFormedUpToSuffix ==
    pc = "done" =>
        /\ Len(sanitized_names) = Len(column_names)
        /\ LET b == ClaimBases(column_names) IN
           \A k \in 1..Len(sanitized_names) :
            LET n == sanitized_names[k] IN
            IF IsDuplicateAt(b, k)
            THEN /\ Len(n) >= 2
                 /\ n[Len(n)] = 65 + (k - 1)
                 /\ n[Len(n) - 1] = Ord["_"]
                 /\ WellFormed(SubSeq(n, 1, Len(n) - 2))
            ELSE WellFormed(n)

\* A finished call whose input holds a duplicate, a header with a leading
\* underscore and a double underscore, and a header with no valid character.
C1_Witness ==
    /\ pc = "done"
    /\ \E k \in 1..Len(column_names) : IsDuplicateAt(ClaimBases(column_names), k)
    /\ \E k \in 1..Len(column_names) :
        column_names[k] = <<"str", S(<<"_", "Q", "_", "_", "a", "!">>)>>
    /\ \E k \in 1..Len(column_names) :
        column_names[k] = <<"str", S(<<"!", "!">>)>>

\* C2: the identifiers returned by one sanitize call are pairwise unique,
\* so a mapping keyed by them has one entry per column.
C2_PairwiseUnique ==
    pc = "done" =>
        /\ \A j, k \in 1..Len(sanitized_names) :
            j # k => sanitized_names[j] # sanitized_names[k]
        /\ Cardinality({sanitized_names[k] : k \in 1..Len(sanitized_names)})
             = Len(column_names)

----------------------------------------------------------------------------
(* Claims about the ExcelMapper object, checked under Spec. Every step of  *)
(* Spec is one call, and last' describes it.                               *)

\* Both read as an absent cell.
IsAbsent(value) == value = None \/ value = NaN
SameValue(x, y) == x = y \/ (IsAbsent(x) /\ IsAbsent(y))

SuppliedNames(kwargs) == {kwargs[k][1] : k \in 1..Len(kwargs)}

\* C4: a table loaded and saved unchanged to a new path reads back, when
\* that path is loaded, with the same ordered original headers and the same
\* cell values in every row, whatever the number of rows.
C4_RoundTrip ==
    (/\ last.op = "load"
     /\ last.result = "ok"
     /\ saved.path # "None"
     /\ saved.path = last.path)
    => /\ DictValues(column_mapping) = saved.columns
       /\ TableCells(column_mapping, rows) = saved.cells

\* C5: add_row whose names are all identifiers of the ColumnMapping
\* succeeds and appends one row in which each supplied identifier reads the
\* supplied value and every other identifier reads None; add_row with a name
\* that is no identifier fails with AttributeError and appends nothing.
C5_AddRow ==
    [][ last'.op = "add_row" =>
            IF SuppliedNames(last'.kwargs) \subseteq Identifiers
            THEN /\ last'.result = "ok"
                 /\ Len(rows') = Len(rows) + 1
                 /\ SubSeq(rows', 1, Len(rows)) = rows
                 /\ \A a \in Identifiers :
                        getattr_or_None(rows'[Len(rows')], a) =
                            IF a \in SuppliedNames(last'.kwargs)
                            THEN DictGet(last'.kwargs, a)
                            ELSE None
            ELSE /\ last'.result = "AttributeError"
                 /\ rows' = rows ]_vars

\* C6: update_column on an identifier of the table with a list whose length
\* differs from the row count fails with ValueError and leaves the rows as
\* they are, whatever the row count, zero included.
C6_LengthMismatch ==
    [][ (/\ last'.op = "update_column"
         /\ last'.name \in Identifiers
         /\ Len(last'.values) # Len(rows))
        => /\ last'.result = "ValueError"
           /\ rows' = rows ]_vars

\* C7: update_row with an index outside [0, rowCount), negative indices
\* included, fails with IndexError and leaves the rows and the
\* ColumnMapping as they are, whatever the keyword arguments.
C7_IndexOutOfRange ==
    [][ (/\ last'.op = "update_row"
         /\ (last'.index < 0 \/ last'.index >= Len(rows)))
        => /\ last'.result = "IndexError"
           /\ rows' = rows
           /\ column_mapping' = column_mapping ]_vars

\* An update_row call with index -1 and a keyword argument naming an
\* identifier, on a table that has a row, has raised IndexError.
C7_Witness ==
    /\ last.op = "update_row"
    /\ last.index = -1
    /\ last.kwargs # <<>>
    /\ SuppliedNames(last.kwargs) \subseteq Identifiers
    /\ Len(rows) > 0
    /\ last.result = "IndexError"

\* C8: update_row with an index in range fails with AttributeError whenever
\* a supplied name is no identifier of the ColumnMapping, a method or a
\* private attribute of the row included.
C8_UnknownFieldRejected ==
    (/\ last.op = "update_row"
     /\ last.index >= 0 /\ last.index < Len(rows)
     /\ ~(SuppliedNames(last.kwargs) \subseteq Identifiers))
    => last.result = "AttributeError"

\* C9: save_excel with overwrite False fails with ValueError when no path
\* is given and with FileExistsError when the path exists, in both cases
\* with the filesystem and the rows as they were; it never replaces a file
\* that exists.
C9_NoOverwrite ==
    [][ (last'.op = "save_excel" /\ ~last'.overwrite) =>
            /\ last'.path = "None" =>
                (last'.result = "ValueError" /\ fs' = fs /\ rows' = rows)
            /\ (last'.path # "None" /\ fs[last'.path].exists) =>
                (last'.result = "FileExistsError" /\ fs' = fs /\ rows' = rows)
            /\ \A p \in Paths : fs[p].exists => fs'[p] = fs[p] ]_vars

\* A save to out.xlsx without overwrite has raised FileExistsError on the
\* file an earlier save wrote there.
C9_Witness ==
    /\ last.op = "save_excel"
    /\ ~last.overwrite
    /\ last.path = "out.xlsx"
    /\ fs["out.xlsx"].exists
    /\ last.result = "FileExistsError"

\* C10: to_dict returns the union of the header-keyed data and the
\* identifier-keyed fields, and under a key that is both an identifier and
\* a header the entry is the row's current identifier-keyed value.
C10_IdentifierPrecedence ==
    (last.op = "to_dict" /\ last.result = "ok") =>
        LET row == rows[last.index + 1]
            data == row._data[2]
            out == last.out
        IN /\ \A a \in Identifiers :
                /\ DictHas(out, StrKey(a))
                /\ SameValue(DictGet(out, StrKey(a)), getattr_or_None(row, a))
           /\ \A k \in 1..Len(data) :
                (data[k][1][1] = "str" /\ data[k][1][2] \in Identifiers)
                \/ (DictHas(out, data[k][1]) /\ DictGet(out, data[k][1]) = data[k][2])
           /\ \A k \in 1..Len(out) :
                \/ DictHas(data, out[k][1])
                \/ (out[k][1][1] = "str" /\ out[k][1][2] \in Identifiers)

====
